---- MODULE Spec2Model ----
(***************************************************************************)
(* Model of twisted/conch/unix.py: the Unix-user back end of the conch SSH *)
(* server.  The process-wide credentials are kernel state; _runAsUser is   *)
(* modelled one system call at a time, with its activations on a call      *)
(* stack, so that an operation of a batch may itself call _runAsUser.      *)
(***************************************************************************)
EXTENDS Integers, Sequences, FiniteSets, TLC

VARIABLES
    cred,       \* credentials of the server process, as the kernel holds them
    stack,      \* activations of UnixConchUser._runAsUser, innermost last
    ret,        \* outcome of the activation that just ended, until its caller takes it
    sess,       \* the fields of one SSHSessionForUnixConchUser
    devs,       \* the pty slave devices, by number: on disk or not, owner, group
    nSpawned,   \* how many child processes the reactor has spawned
    child,      \* the process self.pty refers to, and the terminal it runs on
    utmpLog,    \* the records written to the login accounting files
    utmp,       \* whether the utmp module could be imported (lines 28-31)
    last,       \* the session method that raised last, and its error
    nClosed,    \* how many times closed() has been called on the session
    wire,       \* what went out through the write hook: ignore messages and payloads
    writes,     \* the writes made through the hook, each with the terminal flags it met
    file,       \* the file an SFTP client works on: attributes and bytes
    handle,     \* the UnixSFTPFile the client holds
    sysLog,     \* the filesystem system calls made, each with the identity it ran under
    reply,      \* what the last SFTP request returned or raised
    dir,        \* the UnixSFTPDirectory the client holds: the names still to give
    proxy       \* one proxied HTTP request: its father, its connection, its ProxyClient

privVars == <<cred, stack, ret>>
sessVars == <<sess, devs, nSpawned, child, utmpLog, utmp, last, nClosed>>
ttyVars == <<wire, writes>>
sftpVars == <<file, handle, sysLog, reply, dir>>
otherVars == <<ttyVars, sftpVars, proxy>>
vars == <<cred, stack, ret, sess, devs, nSpawned, child, utmpLog, utmp, last, nClosed,
          wire, writes, file, handle, sysLog, reply, dir, proxy>>

(***************************************************************************)
(* Bounds of the model.                                                    *)
(***************************************************************************)
\* longest list of operations handed to _runAsUser
MaxOps == 2
\* deepest nesting of _runAsUser activations
MaxDepth == 2
\* pseudo-terminals the system hands out before openpty fails
MaxPtys == 1
\* child processes the system lets the server spawn before fork fails
MaxProcs == 1
\* calls of closed() on the session
MaxCloses == 2
\* writes made through the write hook
MaxWrites == 2
\* longest file, in bytes
MaxFileLen == 3
\* handleResponseEnd callbacks on one ProxyClient
MaxEnds == 2
\* handleHeader and handleResponsePart callbacks on one ProxyClient, of each
MaxParts == 2

None == "None"
Unbound == "Unbound"

(***************************************************************************)
(* The account databases read by UnixConchUser.__init__.                   *)
(***************************************************************************)
\* pwd.getpwnam: uid and primary gid of each account
Passwd ==
    [alice |-> [uid |-> 1, gid |-> 2],
     bob   |-> [uid |-> 2, gid |-> 1],
     ghost |-> [uid |-> 3, gid |-> 2]]

Users == DOMAIN Passwd

\* grp.getgrall, in database order: (gid, userlist)
GroupDB ==
    << [gid |-> 2, users |-> {"alice"}],
       [gid |-> 1, users |-> {"alice", "bob"}] >>

\* ids the kernel accepts as the target of a switch; an id of the account
\* database that is not mapped in the process's user namespace is refused
MappedIds == {0, 1, 2}

getUserGroupId(u) == Passwd[u]

RECURSIVE MemberGids(_, _)
MemberGids(u, db) ==
    IF db = <<>> THEN <<>>
    ELSE (IF u \in Head(db).users THEN <<Head(db).gid>> ELSE <<>>)
         \o MemberGids(u, Tail(db))

\* self.otherGroups: the primary gid, then the gid of every group listing u
getOtherGroups(u) == <<Passwd[u].gid>> \o MemberGids(u, GroupDB)

(***************************************************************************)
(* The kernel's identity system calls.  Each yields [ok, cred].            *)
(***************************************************************************)
Privileged(c) == c.euid = 0

Range(s) == {s[i] : i \in DOMAIN s}

seteuid(c, x) ==
    IF x \in MappedIds /\ (Privileged(c) \/ x \in {c.ruid, c.euid, c.suid})
    THEN [ok |-> TRUE, cred |-> [c EXCEPT !.euid = x]]
    ELSE [ok |-> FALSE, cred |-> c]

setegid(c, x) ==
    IF x \in MappedIds /\ (Privileged(c) \/ x \in {c.rgid, c.egid, c.sgid})
    THEN [ok |-> TRUE, cred |-> [c EXCEPT !.egid = x]]
    ELSE [ok |-> FALSE, cred |-> c]

\* the kernel keeps the supplementary groups sorted
setgroups(c, l) ==
    IF Range(l) \subseteq MappedIds /\ Privileged(c)
    THEN [ok |-> TRUE,
          cred |-> [c EXCEPT !.groups = SortSeq(l, LAMBDA a, b : a < b)]]
    ELSE [ok |-> FALSE, cred |-> c]

getgroups(c) == c.groups

(***************************************************************************)
(* UnixConchUser._runAsUser(f, *args, **kw).                               *)
(***************************************************************************)
\* the callables of a batch, by position
Funcs == <<"f1", "f2", "f3", "f4">>

\* the argument f: one callable (with *args), or a list of (callable, args)
Inputs ==
    {[form |-> "single", func |-> Funcs[1]]}
    \cup
    {[form |-> "list", items |-> SubSeq(Funcs, 1, n)] : n \in 0..MaxOps}

\* what a callable does when it is called: return a value, raise an error,
\* or call _runAsUser again (no deeper than MaxDepth activations)
Behaviours(d) ==
    {"r1", "r2", "e1"} \cup (IF d < MaxDepth THEN {"call"} ELSE {})

Errors == {"e1", "OSError", "UnboundLocalError"}
IsError(b) == b \in Errors

\* lines 123-126: iter(f), or [(f, args, kw)] when f is not iterable
Batch(f) == IF f.form = "list" THEN f.items ELSE <<f.func>>

Ins(call, id, ids) == [call |-> call, id |-> id, ids |-> ids]

\* faulty variant: the uid is dropped before the gid
EntryProgramUidFirst(u) ==
    << Ins("setegid", 0, <<>>),
       Ins("seteuid", 0, <<>>),
       Ins("setgroups", 0, getOtherGroups(u)),
       Ins("seteuid", getUserGroupId(u).uid, <<>>),
       Ins("setegid", getUserGroupId(u).gid, <<>>) >>

\* lines 118-122: the identity switch
EntryProgram(u) ==
    << Ins("setegid", 0, <<>>),
       Ins("seteuid", 0, <<>>),
       Ins("setgroups", 0, getOtherGroups(u)),
       Ins("setegid", getUserGroupId(u).gid, <<>>),
       Ins("seteuid", getUserGroupId(u).uid, <<>>) >>

\* faulty variant: the finally block goes back to root, not to what was saved
CleanupProgramToRoot(fr) ==
    << Ins("setegid", 0, <<>>),
       Ins("seteuid", 0, <<>>),
       Ins("setgroups", 0, <<0>>),
       Ins("setegid", 0, <<>>),
       Ins("seteuid", 0, <<>>) >>

\* lines 134-138: the finally block
CleanupProgram(fr) ==
    << Ins("setegid", 0, <<>>),
       Ins("seteuid", 0, <<>>),
       Ins("setgroups", 0, fr.groups),
       Ins("setegid", fr.egid, <<>>),
       Ins("seteuid", fr.euid, <<>>) >>

\* line 132: func(*args, **kw), as an entry of an activation's log
OpIns == Ins("op", 0, <<>>)

Sys(c, ins) ==
    CASE ins.call = "seteuid"   -> seteuid(c, ins.id)
      [] ins.call = "setegid"   -> setegid(c, ins.id)
      [] ins.call = "setgroups" -> setgroups(c, ins.ids)

NoRet == [kind |-> "none"]

Top == stack[Len(stack)]
Below == SubSeq(stack, 1, Len(stack) - 1)

\* lines 114-117: the activation's locals
NewFrame(u, f) ==
    [user |-> u, f |-> f,
     euid |-> cred.euid, egid |-> cred.egid, groups |-> getgroups(cred),
     pc |-> "entry", k |-> 1,
     batch |-> <<>>, i |-> 1, r |-> Unbound, exc |-> None,
     ran |-> <<>>, outs |-> <<>>, log |-> <<>>]

\* what the caller of an activation gets, with the activation's record
Outcome(fr, kind, val, phase) ==
    [kind |-> kind, val |-> val, phase |-> phase,
     user |-> fr.user, f |-> fr.f, batch |-> fr.batch,
     pre |-> [euid |-> fr.euid, egid |-> fr.egid, groups |-> fr.groups],
     ran |-> fr.ran, outs |-> fr.outs, log |-> fr.log, depth |-> Len(stack)]

\* a request handler calls avatar._runAsUser: handlers run one at a time
\* on the reactor thread, each to its end
runAsUser(u, f) ==
    /\ stack = <<>>
    /\ ret = NoRet
    /\ stack' = <<NewFrame(u, f)>>
    /\ UNCHANGED <<cred, ret>>
    /\ UNCHANGED <<sessVars, otherVars>>

\* one system call of lines 118-122; an error leaves through no handler
runAsUserEntry ==
    /\ stack # <<>>
    /\ Top.pc = "entry"
    /\ UNCHANGED <<sessVars, otherVars>>
    /\ LET fr  == Top
           ins == EntryProgram(fr.user)[fr.k]
           res == Sys(cred, ins)
           fr1 == [fr EXCEPT !.log = Append(@, ins)]
       IN  /\ cred' = res.cred
           /\ IF ~res.ok
              THEN /\ stack' = Below
                   /\ ret' = Outcome(fr1, "raised", "OSError", "entry")
              ELSE /\ ret' = ret
                   /\ IF fr.k < Len(EntryProgram(fr.user))
                      THEN stack' = Below \o <<[fr1 EXCEPT !.k = @ + 1]>>
                      ELSE LET b == Batch(fr.f)
                           IN stack' = Below \o
                                <<[fr1 EXCEPT !.batch = b, !.k = 1,
                                     !.pc = IF b = <<>> THEN "cleanup" ELSE "loop"]>>

\* the frame after operation i returned val (line 132, then the next turn)
Advance(fr, val) ==
    [fr EXCEPT !.r = val, !.i = @ + 1, !.outs = Append(@, val),
               !.pc = IF fr.i = Len(fr.batch) THEN "cleanup" ELSE "loop"]

\* faulty variant: the error is kept, and the loop goes on to the next operation
AbortKeepsGoing(fr, err) ==
    [fr EXCEPT !.exc = err, !.i = @ + 1, !.outs = Append(@, err),
               !.pc = IF fr.i = Len(fr.batch) THEN "cleanup" ELSE "loop"]

\* the frame after an error left the loop: on to the finally block
Abort(fr, err) ==
    [fr EXCEPT !.exc = err, !.outs = Append(@, err), !.pc = "cleanup"]

\* lines 128-132: the next operation of the batch is called
runAsUserOp ==
    /\ stack # <<>>
    /\ Top.pc = "loop"
    /\ UNCHANGED <<sessVars, otherVars>>
    /\ \E b \in Behaviours(Len(stack)) :
         LET fr1 == [Top EXCEPT !.ran = Append(@, Top.batch[Top.i]),
                                !.log = Append(@, OpIns)]
         IN  /\ UNCHANGED <<cred, ret>>
             /\ IF b = "call"
                THEN \E u \in Users : \E f \in Inputs :
                       stack' = Below \o <<[fr1 EXCEPT !.pc = "wait"]>>
                                      \o <<NewFrame(u, f)>>
                ELSE IF IsError(b)
                THEN stack' = Below \o <<Abort(fr1, b)>>
                ELSE stack' = Below \o <<Advance(fr1, b)>>

\* an operation that called _runAsUser gets that call's outcome
runAsUserResume ==
    /\ stack # <<>>
    /\ Top.pc = "wait"
    /\ ret # NoRet
    /\ stack' = Below \o
           <<IF ret.kind = "returned" THEN Advance(Top, ret.val)
                                      ELSE Abort(Top, ret.val)>>
    /\ ret' = NoRet
    /\ UNCHANGED cred
    /\ UNCHANGED <<sessVars, otherVars>>

\* line 139 (and the implicit re-raise at the end of the finally block)
Leave(fr) ==
    IF fr.exc # None THEN Outcome(fr, "raised", fr.exc, "op")
    ELSE IF fr.r = Unbound
         THEN Outcome(fr, "raised", "UnboundLocalError", "return")
         ELSE Outcome(fr, "returned", fr.r, "return")

\* one system call of lines 134-138
runAsUserCleanup ==
    /\ stack # <<>>
    /\ Top.pc = "cleanup"
    /\ UNCHANGED <<sessVars, otherVars>>
    /\ LET fr  == Top
           ins == CleanupProgram(fr)[fr.k]
           res == Sys(cred, ins)
           fr1 == [fr EXCEPT !.log = Append(@, ins)]
       IN  /\ cred' = res.cred
           /\ IF ~res.ok
              THEN /\ stack' = Below
                   /\ ret' = Outcome(fr1, "raised", "OSError", "cleanup")
              ELSE IF fr.k < Len(CleanupProgram(fr))
                   THEN /\ stack' = Below \o <<[fr1 EXCEPT !.k = @ + 1]>>
                        /\ ret' = ret
                   ELSE /\ stack' = Below
                        /\ ret' = Leave(fr1)

\* the handler that called _runAsUser takes the outcome and ends
Deliver ==
    /\ stack = <<>>
    /\ ret # NoRet
    /\ ret' = NoRet
    /\ UNCHANGED <<cred, stack>>
    /\ UNCHANGED <<sessVars, otherVars>>

(***************************************************************************)
(* SSHSessionForUnixConchUser: one session of one avatar.                  *)
(***************************************************************************)
\* the avatar the session was adapted from
SessUser == "alice"

\* group of the pty slave devices (os.stat(ttyname)[5])
TtyGid == 5

NoProc == 0
NoPtyTuple == <<>>

\* the pty requests of a client: (term, windowSize, modes)
PtyRequests ==
    { <<"xterm", <<24, 80, 0, 0>>, <<>> >>,
      <<"vt100", <<30, 100, 0, 0>>, << <<"ECHO", 0>> >> >> }

\* line 147: the environment a new session starts with
InitEnviron ==
    [PATH |-> "/bin:/usr/bin:/usr/local/bin", TERM |-> None, SSH_TTY |-> None,
     USER |-> None, HOME |-> None, SHELL |-> None, SSH_CLIENT |-> None]

\* lines 145-149: __init__
NewSession ==
    [environ |-> InitEnviron, pty |-> NoProc, ptyTuple |-> NoPtyTuple,
     winSize |-> <<>>, modes |-> <<>>, hooked |-> FALSE]

\* the device a pty tuple names: (master, slave, ttyname) of the n-th pair
TtyOf(tuple) == tuple[3]

\* os.chown(path, uid, gid): root only, unless nothing changes
chown(c, ds, n, uid, gid) ==
    IF ~ds[n].exists THEN [ok |-> FALSE, devs |-> ds]
    ELSE IF Privileged(c) \/ (c.euid = ds[n].uid /\ uid = ds[n].uid /\ gid = ds[n].gid)
    THEN [ok |-> TRUE, devs |-> [ds EXCEPT ![n].uid = uid, ![n].gid = gid]]
    ELSE [ok |-> FALSE, devs |-> ds]

\* faulty variant: the effective ids are left at 0 after the chown
getPtyOwnershipStaysRoot(c, ds, tuple, u, raced) ==
    LET n == TtyOf(tuple)
    IN  IF ~ds[n].exists
        THEN [ok |-> FALSE, cred |-> c, devs |-> ds, at |-> c]
        ELSE
        LET ttyGid == ds[n].gid
            g0 == setegid(c, 0)
            u0 == seteuid(g0.cred, 0)
            ds1 == IF raced THEN [ds EXCEPT ![n].exists = FALSE] ELSE ds
            ch == chown(u0.cred, ds1, n, getUserGroupId(u).uid, ttyGid)
        IN  [ok |-> ch.ok, cred |-> u0.cred, devs |-> ch.devs, at |-> u0.cred]

\* lines 237-247: getPtyOwnership; yields [ok, cred, devs, at], at being the
\* credentials os.chown is called under.  raced tells whether the device goes
\* away between os.stat (line 238) and os.chown (line 244), which then raises
getPtyOwnership(c, ds, tuple, u, raced) ==
    LET n == TtyOf(tuple)
    IN  IF ~ds[n].exists                       \* os.stat raises
        THEN [ok |-> FALSE, cred |-> c, devs |-> ds, at |-> c]
        ELSE
        LET ttyGid == ds[n].gid
            euid == c.euid
            egid == c.egid
            g0 == setegid(c, 0)
            u0 == seteuid(g0.cred, 0)
        IN  IF ~g0.ok THEN [ok |-> FALSE, cred |-> c, devs |-> ds, at |-> c]
            ELSE IF ~u0.ok
            THEN [ok |-> FALSE, cred |-> g0.cred, devs |-> ds, at |-> g0.cred]
            ELSE
            LET ds1 == IF raced THEN [ds EXCEPT ![n].exists = FALSE] ELSE ds
                ch == chown(u0.cred, ds1, n, getUserGroupId(u).uid, ttyGid)
                g1 == setegid(u0.cred, egid)
                u1 == seteuid(g1.cred, euid)
            IN  [ok |-> ch.ok /\ g1.ok /\ u1.ok,
                 cred |-> IF g1.ok THEN u1.cred ELSE g1.cred,
                 devs |-> ch.devs, at |-> u0.cred]

\* no child: self.pty is None
NoChild ==
    [alive |-> FALSE, tty |-> 0, hups |-> 0, stdinClosed |-> FALSE,
     lost |-> FALSE, ws |-> <<>>, lflag |-> {}]

\* the flags of the line discipline of a pty just opened
DefaultLflag == {"ECHO", "ICANON"}

\* reactor.spawnProcess(..., uid, gid, usePTY): the process object; old is
\* the object self.pty referred to before.  A pty keeps its window size and
\* flags from one child to the next
spawnProcess(old, tuple) ==
    LET n == IF tuple = NoPtyTuple THEN 0 ELSE TtyOf(tuple)
    IN  [alive |-> TRUE, tty |-> n, hups |-> 0, stdinClosed |-> FALSE,
         lost |-> FALSE,
         ws |-> IF n # 0 /\ old.tty = n THEN old.ws ELSE <<>>,
         lflag |-> IF n = 0 THEN {}
                   ELSE IF old.tty = n THEN old.lflag ELSE DefaultLflag]

\* lines 151-175: addUTMPEntry(loggedIn); yields [err, log].  mod tells
\* whether the utmp module was imported; resolves, whether
\* socket.gethostbyaddr finds the peer's name
addUTMPEntry(log, mod, tuple, pid, loggedIn, resolves) ==
    IF ~mod THEN [err |-> None, log |-> log]
    ELSE IF tuple = NoPtyTuple            \* line 156: self.ptyTuple[2] of 0
    THEN [err |-> "TypeError", log |-> log]
    ELSE IF loggedIn /\ ~resolves
    THEN [err |-> "herror", log |-> log]
    ELSE [err |-> None,
          log |-> Append(log, [type |-> IF loggedIn THEN "USER_PROCESS"
                                                    ELSE "DEAD_PROCESS",
                               line |-> TtyOf(tuple)])]

\* the terminal flag a mode of the wire protocol stands for (ttymodes)
RECURSIVE ApplyModes(_, _)
ApplyModes(lflag, modes) ==
    IF modes = <<>> THEN lflag
    ELSE LET m == Head(modes)
         IN  ApplyModes(IF m[2] # 0 THEN lflag \cup {m[1]} ELSE lflag \ {m[1]},
                        Tail(modes))

\* lines 249-271: setModes, on the terminal of the child
setModes(ch, modes) == [ch EXCEPT !.lflag = ApplyModes(@, modes)]

\* fcntl.ioctl(self.pty.fileno(), TIOCSWINSZ, winSize)
setWinSize(ch, ws) == [ch EXCEPT !.ws = ws]

Idle == stack = <<>> /\ ret = NoRet

NoError == [op |-> None, err |-> None]

\* a session method ends: with an error, or returning
Done(op, err) ==
    last' = IF err = None THEN NoError ELSE [op |-> op, err |-> err]

\* lines 178-185
getPty(term, windowSize, modes) ==
    /\ Idle
    /\ LET s1 == [sess EXCEPT !.environ.TERM = term, !.winSize = windowSize,
                              !.modes = modes]
           n  == Len(devs) + 1
       IN  IF n > MaxPtys                       \* pty.openpty raises
           THEN /\ sess' = s1
                /\ Done("getPty", "OSError")
                /\ UNCHANGED devs
           ELSE /\ devs' = Append(devs, [exists |-> TRUE, uid |-> cred.euid,
                                         gid |-> TtyGid])
                /\ sess' = [s1 EXCEPT !.environ.SSH_TTY = n,
                                      !.ptyTuple = <<n, n, n>>]
                /\ Done("getPty", None)
    /\ UNCHANGED <<privVars, nSpawned, child, utmpLog, utmp, nClosed>>
    /\ UNCHANGED otherVars

\* lines 192-201: the environment of the shell
ShellEnviron(env, u) ==
    [env EXCEPT !.USER = u, !.HOME = "home", !.SHELL = "shell",
                !.SSH_CLIENT = "peer"]

\* faulty variant: the environment is filled in before the pty is looked for
openShellNoPtyLate ==
    /\ Done("openShell", "ConchError")
    /\ sess' = [sess EXCEPT !.environ = ShellEnviron(@, SessUser)]
    /\ UNCHANGED <<cred, devs, nSpawned, child, utmpLog>>

\* lines 189-191: there was no pty request
openShellNoPty ==
    /\ Done("openShell", "ConchError")
    /\ UNCHANGED <<cred, sess, devs, nSpawned, child, utmpLog>>

\* lines 187-213
openShell(resolves) ==
    /\ Idle
    /\ IF sess.ptyTuple = NoPtyTuple
       THEN openShellNoPty
       ELSE \E raced \in BOOLEAN :
       LET s1  == [sess EXCEPT !.environ = ShellEnviron(@, SessUser)]
           own == getPtyOwnership(cred, devs, sess.ptyTuple, SessUser, raced)
           pid == nSpawned + 1
           s2  == [s1 EXCEPT !.pty = pid]
           c1  == spawnProcess(child, sess.ptyTuple)
           ut  == addUTMPEntry(utmpLog, utmp, sess.ptyTuple, pid, TRUE, resolves)
           c2  == setWinSize(c1, sess.winSize)
           c3  == IF sess.modes # <<>> THEN setModes(c2, sess.modes) ELSE c2
       IN  /\ cred' = own.cred
           /\ devs' = own.devs
           /\ IF ~own.ok \/ pid > MaxProcs          \* stat, chown or fork fails
              THEN /\ sess' = s1
                   /\ Done("openShell", "OSError")
                   /\ UNCHANGED <<nSpawned, child, utmpLog>>
              ELSE /\ nSpawned' = pid
                   /\ utmpLog' = ut.log
                   /\ IF ut.err # None
                      THEN /\ sess' = s2
                           /\ child' = c1
                           /\ Done("openShell", ut.err)
                      ELSE /\ sess' = [s2 EXCEPT !.hooked = TRUE]
                           /\ child' = c3
                           /\ Done("openShell", None)
    /\ UNCHANGED <<stack, ret, utmp, nClosed>>
    /\ UNCHANGED otherVars

\* lines 215-235
execCommand(resolves) ==
    /\ Idle
    /\ \E raced \in BOOLEAN :
       LET s1  == [sess EXCEPT !.environ.SSH_CLIENT = "peer"]
           has == sess.ptyTuple # NoPtyTuple
           own == IF has THEN getPtyOwnership(cred, devs, sess.ptyTuple, SessUser,
                                              raced)
                         ELSE [ok |-> TRUE, cred |-> cred, devs |-> devs]
           pid == nSpawned + 1
           s2  == [s1 EXCEPT !.pty = pid]
           c1  == spawnProcess(child, sess.ptyTuple)
           ut  == IF has
                  THEN addUTMPEntry(utmpLog, utmp, sess.ptyTuple, pid, TRUE, resolves)
                  ELSE [err |-> None, log |-> utmpLog]
           c2  == IF has /\ sess.modes # <<>> THEN setModes(c1, sess.modes) ELSE c1
       IN  /\ cred' = own.cred
           /\ devs' = own.devs
           /\ IF ~own.ok \/ pid > MaxProcs          \* stat, chown or fork fails
              THEN /\ sess' = s1
                   /\ Done("execCommand", "OSError")
                   /\ UNCHANGED <<nSpawned, child, utmpLog>>
              ELSE /\ nSpawned' = pid
                   /\ utmpLog' = ut.log
                   /\ sess' = s2
                   /\ child' = IF ut.err # None THEN c1 ELSE c2
                   /\ Done("execCommand", ut.err)
    /\ UNCHANGED <<stack, ret, utmp, nClosed>>
    /\ UNCHANGED otherVars

\* faulty variant: the handle of the child is dropped with its input
eofReceivedDropsChild ==
    /\ Idle
    /\ child' = NoChild
    /\ sess' = [sess EXCEPT !.pty = NoProc]
    /\ Done("eofReceived", None)
    /\ UNCHANGED <<privVars, devs, nSpawned, utmpLog, utmp, nClosed>>
    /\ UNCHANGED otherVars

\* lines 273-275
eofReceived ==
    /\ Idle
    /\ IF sess.pty # NoProc
       THEN child' = [child EXCEPT !.stdinClosed = TRUE]
       ELSE child' = child
    /\ Done("eofReceived", None)
    /\ UNCHANGED <<privVars, sess, devs, nSpawned, utmpLog, utmp, nClosed>>
    /\ UNCHANGED otherVars

\* lines 282-285: signalProcess('HUP'); a child that has exited raises
\* ProcessExitedAlready, which is passed over
signalHUP(ch) == IF ch.alive THEN [ch EXCEPT !.hups = @ + 1] ELSE ch

\* line 286: self.pty.loseConnection(): every stream of the child is closed,
\* its input with them
loseConnection(ch) == [ch EXCEPT !.lost = TRUE, !.stdinClosed = TRUE]

\* lines 277-288
closed ==
    /\ Idle
    /\ nClosed < MaxCloses
    /\ nClosed' = nClosed + 1
    /\ LET has == sess.ptyTuple # NoPtyTuple /\ devs[TtyOf(sess.ptyTuple)].exists
           ch  == IF has
                  THEN chown(cred, devs, TtyOf(sess.ptyTuple), 0,
                             devs[TtyOf(sess.ptyTuple)].gid)
                  ELSE [ok |-> TRUE, devs |-> devs]
           ut  == addUTMPEntry(utmpLog, utmp, sess.ptyTuple, sess.pty, FALSE, TRUE)
       IN  /\ devs' = ch.devs
           /\ IF ~ch.ok
              THEN /\ Done("closed", "OSError")
                   /\ UNCHANGED <<child, utmpLog>>
              ELSE IF sess.pty = NoProc
              THEN /\ Done("closed", None)
                   /\ UNCHANGED <<child, utmpLog>>
              ELSE /\ child' = loseConnection(signalHUP(child))
                   /\ utmpLog' = ut.log
                   /\ Done("closed", ut.err)
    /\ UNCHANGED <<privVars, sess, nSpawned, utmp>>
    /\ UNCHANGED otherVars

\* the child the session holds exits and is reaped
childExits ==
    /\ Idle
    /\ sess.pty # NoProc
    /\ child.alive
    /\ child' = [child EXCEPT !.alive = FALSE]
    /\ UNCHANGED <<privVars, sess, devs, nSpawned, utmpLog, utmp, last, nClosed>>
    /\ UNCHANGED otherVars

\* the slave device of the session's pty disappears from /dev
deviceRemoved ==
    /\ Idle
    /\ sess.ptyTuple # NoPtyTuple
    /\ devs[TtyOf(sess.ptyTuple)].exists
    /\ devs' = [devs EXCEPT ![TtyOf(sess.ptyTuple)].exists = FALSE]
    /\ UNCHANGED <<privVars, sess, nSpawned, child, utmpLog, utmp, last, nClosed>>
    /\ UNCHANGED otherVars

\* the window sizes a client sends
WinSizes == { <<24, 80, 0, 0>>, <<30, 100, 0, 0>> }

\* faulty variant: the size reaches the pty, and is not stored
windowChangedNotStored(winSize) ==
    /\ Idle
    /\ sess.pty # NoProc /\ child.tty # 0 /\ child.alive /\ ~child.lost
    /\ child' = setWinSize(child, winSize)
    /\ Done("windowChanged", None)
    /\ UNCHANGED <<privVars, sess, devs, nSpawned, utmpLog, utmp, nClosed>>
    /\ UNCHANGED otherVars

\* lines 290-293.  The size is stored first; the ioctl needs the descriptor
\* of a pty that is still open
windowChanged(winSize) ==
    /\ Idle
    /\ sess' = [sess EXCEPT !.winSize = winSize]
    /\ IF sess.pty = NoProc \/ child.tty = 0         \* no fileno() to call
       THEN /\ Done("windowChanged", "AttributeError")
            /\ UNCHANGED child
       ELSE IF ~child.alive \/ child.lost            \* the descriptor is closed
       THEN /\ Done("windowChanged", "IOError")
            /\ UNCHANGED child
       ELSE /\ child' = setWinSize(child, winSize)
            /\ Done("windowChanged", None)
    /\ UNCHANGED <<privVars, devs, nSpawned, utmpLog, utmp, nClosed>>
    /\ UNCHANGED otherVars

\* the flags of the line discipline a program can set on its terminal
LflagSets == SUBSET {"ECHO", "ICANON"}

\* the program on the pty sets the flags of its terminal (tcsetattr), as a
\* password prompt does
childSetsFlags(lflag) ==
    /\ Idle
    /\ sess.pty # NoProc
    /\ child.alive
    /\ child.tty # 0
    /\ child.lflag # lflag
    /\ child' = [child EXCEPT !.lflag = lflag]
    /\ UNCHANGED <<privVars, sess, devs, nSpawned, utmpLog, utmp, last, nClosed>>
    /\ UNCHANGED otherVars

\* the payloads written to the child
Payloads == { <<"a">>, <<"b", "c">> }

\* faulty variant: the ignore message goes out whenever the pty does not echo
NoEchoEchoOnly(attr) == "ECHO" \notin attr

\* line 301: not echoing, and reading whole lines
NoEcho(attr) == "ECHO" \notin attr /\ "ICANON" \in attr

\* line 302: sendIgnore('\x00' * (8 + len(data)))
sendIgnore(w, data) ==
    Append(w, [kind |-> "ignore", size |-> 8 + Len(data), data |-> <<>>])

\* line 303: self.oldWrite(data)
oldWrite(w, data) ==
    Append(w, [kind |-> "data", size |-> Len(data), data |-> data])

\* lines 295-303: _writeHack(data), called for proto.transport.write once
\* openShell has put it there (lines 211-212), while the pty is open
writeHack(data) ==
    /\ Idle
    /\ sess.hooked
    /\ child.alive /\ ~child.lost
    /\ Len(writes) < MaxWrites
    /\ LET attr == child.lflag                    \* line 300, read anew
           w1   == IF sess.pty # NoProc /\ NoEcho(attr)
                   THEN sendIgnore(wire, data) ELSE wire
       IN  /\ wire' = oldWrite(w1, data)
           /\ writes' = Append(writes, [data |-> data,
                                        echo |-> "ECHO" \in attr,
                                        icanon |-> "ICANON" \in attr])
    /\ Done("_writeHack", None)
    /\ UNCHANGED <<privVars, sess, devs, nSpawned, child, utmpLog, utmp, nClosed>>
    /\ UNCHANGED <<sftpVars, proxy>>

(***************************************************************************)
(* SFTPServerForUnixConchUser, UnixSFTPFile, UnixSFTPDirectory: the files  *)
(* of the avatar.  The callables these classes hand to _runAsUser are      *)
(* functions of os, which do not call back into the server, so that a      *)
(* whole _runAsUser call is one step here.                                 *)
(***************************************************************************)
\* the protocol's open flags (ssh.filetransfer, imported on line 10)
FXF_READ == 1
FXF_WRITE == 2
FXF_APPEND == 4
FXF_CREAT == 8
FXF_TRUNC == 16
FXF_EXCL == 32

\* the open flags of the operating system (os.O_*, lines 402-414)
O_RDONLY == 0
O_WRONLY == 1
O_RDWR == 2
O_CREAT == 64
O_EXCL == 128
O_TRUNC == 512
O_APPEND == 1024

\* x & flag == flag, for a flag of one bit
Has(x, flag) == (x \div flag) % 2 = 1

\* x |= flag, for a flag of one bit
Or(x, flag) == IF Has(x, flag) THEN x ELSE x + flag

\* the access mode in the open flags of the operating system
AccMode(o) == o % 4

\* faulty variant: a file asked for reading and writing is opened for writing
openFlagsOfWriteWins(flags) ==
    LET m  == IF Has(flags, FXF_WRITE) THEN O_WRONLY ELSE O_RDONLY
        o1 == IF Has(flags, FXF_APPEND) THEN Or(m, O_APPEND) ELSE m
        o2 == IF Has(flags, FXF_CREAT) THEN Or(o1, O_CREAT) ELSE o1
        o3 == IF Has(flags, FXF_TRUNC) THEN Or(o2, O_TRUNC) ELSE o2
    IN  IF Has(flags, FXF_EXCL) THEN Or(o3, O_EXCL) ELSE o3

\* lines 400-414: the open flags UnixSFTPFile.__init__ hands to os.open
openFlagsOf(flags) ==
    LET m0 == 0
        m1 == IF Has(flags, FXF_READ) /\ ~Has(flags, FXF_WRITE) THEN O_RDONLY ELSE m0
        m2 == IF Has(flags, FXF_WRITE) /\ ~Has(flags, FXF_READ) THEN O_WRONLY ELSE m1
        m3 == IF Has(flags, FXF_WRITE) /\ Has(flags, FXF_READ) THEN O_RDWR ELSE m2
        o1 == IF Has(flags, FXF_APPEND) THEN Or(m3, O_APPEND) ELSE m3
        o2 == IF Has(flags, FXF_CREAT) THEN Or(o1, O_CREAT) ELSE o1
        o3 == IF Has(flags, FXF_TRUNC) THEN Or(o2, O_TRUNC) ELSE o2
    IN  IF Has(flags, FXF_EXCL) THEN Or(o3, O_EXCL) ELSE o3

\* the byte of a hole left by a write past the end of a file
Hole == "0"

\* the file the client works on, as the avatar left it in its home directory
NewFile ==
    [exists |-> TRUE, uid |-> Passwd[SessUser].uid, gid |-> Passwd[SessUser].gid,
     mode |-> 420, atime |-> 0, mtime |-> 0, data |-> <<"x", "y">>]

\* no descriptor is open.  open, openFlags and pos are the descriptor as the
\* kernel keeps it; held tells whether a UnixSFTPFile with this descriptor as
\* its fd was given to the client (line 423), who alone can ask to close it
NoHandle == [open |-> FALSE, openFlags |-> 0, pos |-> 0, held |-> FALSE]

NoReply == [req |-> None, arg |-> <<>>, err |-> None, val |-> <<>>]

\* a call of os, or of _setAttrs, with its arguments
Op(call, a, b) == [call |-> call, a |-> a, b |-> b]

\* a system call as the kernel sees it: its name and its arguments
Call(call, a) == [call |-> call, a |-> a]

\* the outcome of a call: its error, its value, the files after it, and the
\* system calls it made
Out(err, val, st, calls) == [err |-> err, val |-> val, st |-> st, calls |-> calls]

Min(a, b) == IF a < b THEN a ELSE b

\* faulty variant: the bytes are stored at the end, wherever pos is
StoreAtEnd(data, pos, d) == data \o d

\* the bytes of data with d stored from position pos on
StoreAt(data, pos, d) ==
    [i \in 1..(IF pos + Len(d) > Len(data) THEN pos + Len(d) ELSE Len(data)) |->
        IF i > pos /\ i <= pos + Len(d) THEN d[i - pos]
        ELSE IF i <= Len(data) THEN data[i] ELSE Hole]

\* the attributes os.stat gives
StatOf(f) ==
    [size |-> Len(f.data), uid |-> f.uid, gid |-> f.gid, mode |-> f.mode,
     atime |-> f.atime, mtime |-> f.mtime]

\* whether the kernel lets the caller hand the file to uid:gid
MayChown(c, f, uid, gid) ==
    \/ Privileged(c)
    \/ c.euid = f.uid /\ uid = f.uid /\ gid \in Range(getgroups(c)) \cup {c.egid}

\* whether the caller owns the file
Owns(c, f) == Privileged(c) \/ c.euid = f.uid

\* faulty variant: the mode is set only together with the owner
doSetAttrsModeWithOwner(c, st, attrs, path) ==
    LET f0 == st.file
        doOwn == "uid" \in DOMAIN attrs /\ "gid" \in DOMAIN attrs
        doMode == "permissions" \in DOMAIN attrs /\ doOwn
        doTime == "atime" \in DOMAIN attrs /\ "mtime" \in DOMAIN attrs
        okOwn == f0.exists /\ MayChown(c, f0, attrs.uid, attrs.gid)
        f1 == IF doOwn THEN [f0 EXCEPT !.uid = attrs.uid, !.gid = attrs.gid] ELSE f0
        c1 == IF doOwn THEN <<Call("chown", <<attrs.uid, attrs.gid>>)>> ELSE <<>>
        okMode == f1.exists /\ Owns(c, f1)
        f2 == IF doMode THEN [f1 EXCEPT !.mode = attrs.permissions] ELSE f1
        c2 == IF doMode THEN Append(c1, Call("chmod", <<attrs.permissions>>)) ELSE c1
        okTime == f2.exists /\ Owns(c, f2)
        f3 == IF doTime THEN [f2 EXCEPT !.atime = attrs.atime, !.mtime = attrs.mtime]
                        ELSE f2
        c3 == IF doTime THEN Append(c2, Call("utime", <<attrs.atime, attrs.mtime>>))
                        ELSE c2
    IN  IF path # "file" THEN Out(None, <<>>, st, c3)
        ELSE IF doOwn /\ ~okOwn THEN Out("OSError", <<>>, st, c1)
        ELSE IF doMode /\ ~okMode
        THEN Out("OSError", <<>>, [st EXCEPT !.file = f1], c2)
        ELSE IF doTime /\ ~okTime
        THEN Out("OSError", <<>>, [st EXCEPT !.file = f2], c3)
        ELSE Out(None, <<>>, [st EXCEPT !.file = f3], c3)

\* lines 314-324: _setAttrs(path, attrs).  Only the attributes of the file are
\* kept: on another path the calls are made, and leave no trace here
doSetAttrs(c, st, attrs, path) ==
    LET f0 == st.file
        doOwn == "uid" \in DOMAIN attrs /\ "gid" \in DOMAIN attrs
        doMode == "permissions" \in DOMAIN attrs
        doTime == "atime" \in DOMAIN attrs /\ "mtime" \in DOMAIN attrs
        okOwn == f0.exists /\ MayChown(c, f0, attrs.uid, attrs.gid)
        f1 == IF doOwn THEN [f0 EXCEPT !.uid = attrs.uid, !.gid = attrs.gid] ELSE f0
        c1 == IF doOwn THEN <<Call("chown", <<attrs.uid, attrs.gid>>)>> ELSE <<>>
        okMode == f1.exists /\ Owns(c, f1)
        f2 == IF doMode THEN [f1 EXCEPT !.mode = attrs.permissions] ELSE f1
        c2 == IF doMode THEN Append(c1, Call("chmod", <<attrs.permissions>>)) ELSE c1
        okTime == f2.exists /\ Owns(c, f2)
        f3 == IF doTime THEN [f2 EXCEPT !.atime = attrs.atime, !.mtime = attrs.mtime]
                        ELSE f2
        c3 == IF doTime THEN Append(c2, Call("utime", <<attrs.atime, attrs.mtime>>))
                        ELSE c2
    IN  IF path # "file" THEN Out(None, <<>>, st, c3)
        ELSE IF doOwn /\ ~okOwn THEN Out("OSError", <<>>, st, c1)
        ELSE IF doMode /\ ~okMode
        THEN Out("OSError", <<>>, [st EXCEPT !.file = f1], c2)
        ELSE IF doTime /\ ~okTime
        THEN Out("OSError", <<>>, [st EXCEPT !.file = f2], c3)
        ELSE Out(None, <<>>, [st EXCEPT !.file = f3], c3)

\* one call of a batch, made by a process with the credentials c
Exec(c, st, op) ==
    LET f == st.file
        h == st.handle
        one == <<Call(op.call, <<op.a, op.b>>)>>
        fail == Out("OSError", <<>>, st, one)
    IN  CASE op.call = "open" ->
               IF ~f.exists /\ ~Has(op.a, O_CREAT) THEN fail
               ELSE IF f.exists /\ Has(op.a, O_CREAT) /\ Has(op.a, O_EXCL) THEN fail
               ELSE LET f1 == IF ~f.exists
                              THEN [exists |-> TRUE, uid |-> c.euid, gid |-> c.egid,
                                    mode |-> op.b, atime |-> 0, mtime |-> 0,
                                    data |-> <<>>]
                              ELSE IF Has(op.a, O_TRUNC) THEN [f EXCEPT !.data = <<>>]
                              ELSE f
                    IN  Out(None, <<"fd">>,
                            [file |-> f1,
                             handle |-> [open |-> TRUE, openFlags |-> op.a, pos |-> 0,
                                         held |-> FALSE]],
                            one)
          [] op.call = "close" ->
               IF h.open THEN Out(None, <<>>, [st EXCEPT !.handle = NoHandle], one)
               ELSE fail
          [] op.call = "lseek" ->
               IF h.open
               THEN Out(None, <<op.a>>, [st EXCEPT !.handle.pos = op.a], one)
               ELSE fail
          [] op.call = "read" ->
               IF h.open /\ AccMode(h.openFlags) \in {O_RDONLY, O_RDWR}
               THEN LET got == SubSeq(f.data, h.pos + 1,
                                      Min(h.pos + op.a, Len(f.data)))
                    IN  Out(None, got,
                            [st EXCEPT !.handle.pos = h.pos + Len(got)], one)
               ELSE fail
          [] op.call = "write" ->
               IF h.open /\ AccMode(h.openFlags) \in {O_WRONLY, O_RDWR}
               THEN LET at == IF Has(h.openFlags, O_APPEND) THEN Len(f.data)
                                                           ELSE h.pos
                    IN  Out(None, <<Len(op.a)>>,
                            [file |-> [f EXCEPT !.data = StoreAt(f.data, at, op.a)],
                             handle |-> [h EXCEPT !.pos = at + Len(op.a)]],
                            one)
               ELSE fail
          [] op.call = "fstat" ->
               IF h.open THEN Out(None, <<StatOf(f)>>, st, one) ELSE fail
          [] op.call \in {"stat", "lstat"} ->
               IF op.a # "file" THEN Out(None, <<>>, st, one)
               ELSE IF f.exists THEN Out(None, <<StatOf(f)>>, st, one) ELSE fail
          [] op.call \in {"remove", "rename"} ->
               IF f.exists THEN Out(None, <<>>, [st EXCEPT !.file.exists = FALSE], one)
               ELSE fail
          [] op.call = "_setAttrs" -> doSetAttrs(c, st, op.a, op.b)
          [] OTHER -> Out(None, <<>>, st, one)  \* on paths that are not kept here

\* lines 127-132: the calls of a batch in order, up to the first that raises
RECURSIVE ExecAll(_, _, _)
ExecAll(c, ops, acc) ==
    IF ops = <<>> \/ acc.err # None THEN acc
    ELSE LET x == Exec(c, acc.st, Head(ops))
         IN  ExecAll(c, Tail(ops), Out(x.err, x.val, x.st, acc.calls \o x.calls))

\* the system calls of a program, up to the first that fails
RECURSIVE RunProgram(_, _)
RunProgram(c, prog) ==
    IF prog = <<>> THEN [ok |-> TRUE, cred |-> c]
    ELSE LET r == Sys(c, Head(prog))
         IN  IF r.ok THEN RunProgram(r.cred, Tail(prog)) ELSE r

\* the system calls made, with the identity they were made under
Stamp(c, calls) ==
    [i \in DOMAIN calls |->
        [call |-> calls[i].call, a |-> calls[i].a, euid |-> c.euid,
         egid |-> c.egid, groups |-> getgroups(c)]]

\* faulty variant: the calls are made without the switch of identity
runAsNobody(c, u, ops, st) ==
    LET x == ExecAll(c, ops, Out(None, <<>>, st, <<>>))
    IN  [cred |-> c, err |-> x.err, val |-> x.val, st |-> x.st,
         log |-> Stamp(c, x.calls)]

\* lines 113-139: avatar._runAsUser(ops) in one step: its outcome, the files
\* and the credentials after it, and the system calls the batch made
runAs(c, u, ops, st) ==
    LET saved == [euid |-> c.euid, egid |-> c.egid, groups |-> getgroups(c)]
        e == RunProgram(c, EntryProgram(u))
    IN  IF ~e.ok
        THEN [cred |-> e.cred, err |-> "OSError", val |-> <<>>, st |-> st,
              log |-> <<>>]
        ELSE LET x == ExecAll(e.cred, ops, Out(None, <<>>, st, <<>>))
                 z == RunProgram(e.cred, CleanupProgram(saved))
             IN  [cred |-> z.cred, err |-> IF z.ok THEN x.err ELSE "OSError",
                  val |-> x.val, st |-> x.st, log |-> Stamp(e.cred, x.calls)]

\* the files as the operating system holds them
FsState == [file |-> file, handle |-> handle]

\* the names os.listdir gives for the directory of the client, in its order:
\* another entry, and the file when it is there
Listing(st) == <<"other">> \o (IF st.file.exists THEN <<"file">> ELSE <<>>)

\* no directory was opened.  listed and given are history: the names the
\* listing gave when the stream was opened, and the names of the triples
\* next() returned since
NoDir == [open |-> FALSE, files |-> <<>>, listed |-> <<>>, given |-> <<>>,
          closed |-> FALSE]

\* a request ends: r is the outcome of its (last) _runAsUser call
Respond(req, arg, r) ==
    /\ cred' = r.cred
    /\ file' = r.st.file
    /\ handle' = r.st.handle
    /\ sysLog' = r.log
    /\ reply' = [req |-> req, arg |-> arg, err |-> r.err, val |-> r.val]

\* a request that is one call of avatar._runAsUser
Simple(req, arg, ops) ==
    /\ Idle
    /\ \E r \in {runAs(cred, SessUser, ops, FsState)} : Respond(req, arg, r)
    /\ UNCHANGED <<stack, ret, sessVars, ttyVars, proxy, dir>>

\* the attributes a client sends, by key
AttrValues ==
    [uid |-> {Passwd[SessUser].uid, 0}, gid |-> {1}, permissions |-> {384},
     atime |-> {7}, mtime |-> {9}]

\* every dictionary of attributes: any of the keys, each with one of its values
AttrSets ==
    UNION { {a \in [K -> UNION {AttrValues[k] : k \in K}] :
                \A k \in K : a[k] \in AttrValues[k]}
            : K \in SUBSET DOMAIN AttrValues }

\* lines 343-344 and 398-423: openFile, that is UnixSFTPFile.__init__
openFile(flags, attrs) ==
    /\ Idle
    /\ ~handle.open
    /\ LET openFlags == openFlagsOf(flags)
           mode == IF "permissions" \in DOMAIN attrs THEN attrs.permissions ELSE 511
           rest == [k \in DOMAIN attrs \ {"permissions"} |-> attrs[k]]
       IN  \E r1 \in {runAs(cred, SessUser, <<Op("open", openFlags, mode)>>, FsState)} :
             IF r1.err # None
             THEN Respond("openFile", <<flags, attrs>>, r1)
             ELSE IF DOMAIN rest = {}
             THEN Respond("openFile", <<flags, attrs>>,
                          [r1 EXCEPT !.st.handle.held = TRUE])
             ELSE \E r2 \in {runAs(r1.cred, SessUser,
                                   <<Op("_setAttrs", rest, "file")>>, r1.st)} :
                    Respond("openFile", <<flags, attrs>>,
                            [r2 EXCEPT !.log = r1.log \o r2.log,
                                       !.val = IF r2.err = None THEN r1.val ELSE <<>>,
                                       !.st.handle.held = (r2.err = None)])
    /\ UNCHANGED <<stack, ret, sessVars, ttyVars, proxy, dir>>

\* lines 346-348
removeFile ==
    /\ Idle
    /\ Simple("removeFile", <<>>, <<Op("remove", "file", None)>>)

\* lines 350-353
renameFile ==
    /\ Idle
    /\ Simple("renameFile", <<>>, <<Op("rename", "file", "other")>>)

\* lines 355-358
makeDirectory(attrs) ==
    /\ Idle
    /\ Simple("makeDirectory", <<attrs>>,
              <<Op("mkdir", "other", None), Op("_setAttrs", attrs, "other")>>)

\* lines 360-362
removeDirectory ==
    /\ Idle
    /\ Simple("removeDirectory", <<>>, <<Op("rmdir", "other", None)>>)

\* lines 367-373
getAttrs(followLinks) ==
    /\ Idle
    /\ Simple("getAttrs", <<followLinks>>,
              <<Op(IF followLinks THEN "stat" ELSE "lstat", "file", None)>>)

\* lines 375-377
setAttrs(attrs) ==
    /\ Idle
    /\ Simple("setAttrs", <<attrs>>, <<Op("_setAttrs", attrs, "file")>>)

\* lines 379-381
readLink ==
    /\ Idle
    /\ Simple("readLink", <<>>, <<Op("readlink", "other", None)>>)

\* lines 383-386
makeLink ==
    /\ Idle
    /\ Simple("makeLink", <<>>, <<Op("symlink", "file", "other")>>)

\* lines 388-389: os.path.realpath, called as the server is
realPath ==
    /\ Idle
    /\ sysLog' = Stamp(cred, <<Call("realpath", <<"file">>)>>)
    /\ reply' = [req |-> "realPath", arg |-> <<>>, err |-> None, val |-> <<"path">>]
    /\ UNCHANGED <<privVars, sessVars, ttyVars, proxy, file, handle, dir>>

\* lines 425-426: UnixSFTPFile.close
fileClose ==
    /\ handle.open /\ handle.held
    /\ Simple("close", <<>>, <<Op("close", None, None)>>)

\* lines 428-430
readChunk(offset, length) ==
    /\ handle.open /\ handle.held
    /\ Simple("readChunk", <<offset, length>>,
              <<Op("lseek", offset, 0), Op("read", length, None)>>)

\* lines 432-434
writeChunk(offset, data) ==
    /\ handle.open /\ handle.held
    /\ offset + Len(data) <= MaxFileLen
    /\ Has(handle.openFlags, O_APPEND) => Len(file.data) + Len(data) <= MaxFileLen
    /\ Simple("writeChunk", <<offset, data>>,
              <<Op("lseek", offset, 0), Op("write", data, None)>>)

\* lines 436-438: UnixSFTPFile.getAttrs
fileGetAttrs ==
    /\ handle.open /\ handle.held
    /\ Simple("fileGetAttrs", <<>>, <<Op("fstat", None, None)>>)

\* lines 107-111: UnixConchUser.logout, of an avatar that forwards no port:
\* there is no listener to stop.  The connection is gone, and with it the
\* handles and the directory stream of the client; the descriptors are not
\* touched.  The requests that follow are those of the next login
logout ==
    /\ Idle
    /\ reply.req # "logout"
    /\ handle' = [handle EXCEPT !.held = FALSE]
    /\ dir' = NoDir
    /\ reply' = [req |-> "logout", arg |-> <<>>, err |-> None, val |-> <<>>]
    /\ sysLog' = <<>>
    /\ UNCHANGED <<privVars, sessVars, ttyVars, proxy, file>>

\* lines 364-365 and 446-449: openDirectory, that is UnixSFTPDirectory.__init__.
\* The model follows the stream opened last
openDirectory ==
    /\ Idle
    /\ \E r \in {runAs(cred, SessUser, <<Op("listdir", "other", None)>>, FsState)} :
           /\ Respond("openDirectory", <<>>, r)
           /\ dir' = IF r.err = None
                     THEN [open |-> TRUE, files |-> Listing(r.st),
                           listed |-> Listing(r.st), given |-> <<>>,
                           closed |-> FALSE]
                     ELSE dir
    /\ UNCHANGED <<stack, ret, sessVars, ttyVars, proxy>>

\* lines 454-463: UnixSFTPDirectory.next.  The name is taken off the list
\* (line 456) before os.lstat is called on it (line 459)
dirNext ==
    /\ Idle
    /\ dir.open
    /\ IF dir.files = <<>>
       THEN /\ reply' = [req |-> "next", arg |-> <<>>, err |-> "StopIteration",
                         val |-> <<>>]
            /\ sysLog' = <<>>
            /\ UNCHANGED <<cred, file, handle, dir>>
       ELSE \E f \in {Head(dir.files)} :
            \E r \in {runAs(cred, SessUser, <<Op("lstat", f, None)>>, FsState)} :
                /\ Respond("next", <<>>,
                           [r EXCEPT !.val = IF r.err = None THEN <<f>> \o r.val
                                                           ELSE <<>>])
                /\ dir' = [dir EXCEPT !.files = Tail(@),
                                      !.given = IF r.err = None THEN Append(@, f)
                                                                ELSE @]
    /\ UNCHANGED <<stack, ret, sessVars, ttyVars, proxy>>

\* lines 465-466: UnixSFTPDirectory.close
dirClose ==
    /\ Idle
    /\ dir.open
    /\ dir' = [dir EXCEPT !.files = <<>>, !.closed = TRUE]
    /\ reply' = [req |-> "dirClose", arg |-> <<>>, err |-> None, val |-> <<>>]
    /\ sysLog' = <<>>
    /\ UNCHANGED <<privVars, sessVars, ttyVars, proxy, file, handle>>

(***************************************************************************)
(* twisted.web.proxy: one request through the proxy.                       *)
(***************************************************************************)
\* the response the father starts with: Request sets 200 and its own Server
Father0 == [code |-> 200, headers |-> [server |-> <<"proxy">>, other |-> <<>>],
            body |-> <<>>, finishes |-> 0]

\* lines 217-247: after ProxyRequest.process the factory holds the father and
\* the reactor is connecting.  ends counts the handleResponseEnd callbacks,
\* lost the calls of transport.loseConnection
NewProxy ==
    [conn |-> "connecting", client |-> FALSE, sent |-> FALSE, finished |-> FALSE,
     father |-> Father0, lost |-> 0, ends |-> 0, parts |-> 0, heads |-> 0]

\* the response codes and header names of the remote server
Codes == {200, 404}
HeaderKeys == {"server", "other"}

\* lines 167-175
clientConnectionFailed ==
    /\ proxy.conn = "connecting"
    /\ proxy' = [proxy EXCEPT
                   !.conn = "failed",
                   !.father.code = 501,
                   !.father.headers.other = Append(@, "text/html"),
                   !.father.body = Append(@, "<H1>Could not connect</H1>"),
                   !.father.finishes = @ + 1]
    /\ UNCHANGED <<privVars, sessVars, ttyVars, sftpVars>>

\* lines 159-164 and 49-81: the connection is there, the ProxyClient is built
buildProtocol ==
    /\ proxy.conn = "connecting"
    /\ proxy' = [proxy EXCEPT !.conn = "connected", !.client = TRUE]
    /\ UNCHANGED <<privVars, sessVars, ttyVars, sftpVars>>

\* lines 84-89: the request goes out
connectionMade ==
    /\ proxy.client
    /\ ~proxy.sent
    /\ proxy' = [proxy EXCEPT !.sent = TRUE]
    /\ UNCHANGED <<privVars, sessVars, ttyVars, sftpVars>>

\* lines 92-93
handleStatus(code) ==
    /\ proxy.client
    /\ proxy.sent
    /\ proxy' = [proxy EXCEPT !.father.code = code]
    /\ UNCHANGED <<privVars, sessVars, ttyVars, sftpVars>>

\* lines 96-104: server, date and content-type replace the default of the
\* father, any other header is added
handleHeader(key) ==
    /\ proxy.client
    /\ proxy.sent
    /\ proxy.heads < MaxParts
    /\ proxy' = [proxy EXCEPT
                   !.heads = @ + 1,
                   !.father.headers[key] =
                       IF key = "server" THEN <<"remote">> ELSE Append(@, "remote")]
    /\ UNCHANGED <<privVars, sessVars, ttyVars, sftpVars>>

\* lines 107-108
handleResponsePart(buffer) ==
    /\ proxy.client
    /\ proxy.sent
    /\ proxy.parts < MaxParts
    /\ proxy' = [proxy EXCEPT !.parts = @ + 1, !.father.body = Append(@, buffer)]
    /\ UNCHANGED <<privVars, sessVars, ttyVars, sftpVars>>

\* faulty variant: the father is finished at every end of the response
handleResponseEndEveryTime ==
    /\ proxy.client
    /\ proxy.sent
    /\ proxy.ends < MaxEnds
    /\ proxy' = [proxy EXCEPT !.ends = @ + 1, !.finished = TRUE,
                              !.father.finishes = @ + 1, !.lost = @ + 1,
                              !.conn = "lost"]
    /\ UNCHANGED <<privVars, sessVars, ttyVars, sftpVars>>

\* lines 111-115: HTTPClient calls this when the response is complete, and
\* again when the connection is lost
handleResponseEnd ==
    /\ proxy.client
    /\ proxy.sent
    /\ proxy.ends < MaxEnds
    /\ proxy' = IF ~proxy.finished
                THEN [proxy EXCEPT !.ends = @ + 1, !.finished = TRUE,
                                   !.father.finishes = @ + 1, !.lost = @ + 1,
                                   !.conn = "lost"]
                ELSE [proxy EXCEPT !.ends = @ + 1]
    /\ UNCHANGED <<privVars, sessVars, ttyVars, sftpVars>>

\* a server started by root, with root's supplementary groups
RootCred(g) ==
    [ruid |-> 0, euid |-> 0, suid |-> 0,
     rgid |-> 0, egid |-> 0, sgid |-> 0, groups |-> g]

Init ==
    /\ cred = RootCred(<<0>>)
    /\ utmp \in BOOLEAN
    /\ stack = <<>>
    /\ ret = NoRet
    /\ sess = NewSession
    /\ devs = <<>>
    /\ nSpawned = 0
    /\ child = NoChild
    /\ utmpLog = <<>>
    /\ last = NoError
    /\ nClosed = 0
    /\ wire = <<>>
    /\ writes = <<>>
    /\ file = NewFile
    /\ handle = NoHandle
    /\ sysLog = <<>>
    /\ reply = NoReply
    /\ dir = NoDir
    /\ proxy = NewProxy

NextRunAsUser ==
    \/ \E u \in Users : \E f \in Inputs : runAsUser(u, f)
    \/ runAsUserEntry
    \/ runAsUserOp
    \/ runAsUserResume
    \/ runAsUserCleanup
    \/ Deliver

\* the server's calls of _runAsUser, one system call at a time
SpecRunAsUser == Init /\ [][NextRunAsUser]_vars

NextSession ==
    \/ \E rq \in PtyRequests : getPty(rq[1], rq[2], rq[3])
    \/ \E resolves \in BOOLEAN : openShell(resolves)
    \/ \E resolves \in BOOLEAN : execCommand(resolves)
    \/ eofReceived
    \/ closed
    \/ childExits
    \/ deviceRemoved

\* the requests of one session channel, each handled to its end
SpecSession == Init /\ [][NextSession]_vars

NextTerminal ==
    \/ \E rq \in PtyRequests : getPty(rq[1], rq[2], rq[3])
    \/ \E resolves \in BOOLEAN : openShell(resolves)
    \/ \E winSize \in WinSizes : windowChanged(winSize)
    \/ childExits
    \/ closed

\* an interactive session: the shell on its pty, and the client resizing it
SpecTerminal == Init /\ [][NextTerminal]_vars

NextWriteHack ==
    \/ \E rq \in PtyRequests : getPty(rq[1], rq[2], rq[3])
    \/ openShell(TRUE)
    \/ \E lflag \in LflagSets : childSetsFlags(lflag)
    \/ \E data \in Payloads : writeHack(data)

\* an interactive session: the shell setting the flags of its pty, and the
\* client's input written to it through the hook
SpecWriteHack == Init /\ [][NextWriteHack]_vars

\* the requests of the clients of the model
ReadWrite == FXF_READ + FXF_WRITE
CreateTrunc == FXF_WRITE + FXF_CREAT + FXF_TRUNC
ReadWriteAppend == FXF_READ + FXF_WRITE + FXF_APPEND
NoAttrs == <<>>
ModeAndTimes == [permissions |-> 384, atime |-> 7, mtime |-> 9]
Offsets == 0..MaxFileLen
Lengths == 1..MaxFileLen
Chunks == { <<"p">>, <<"q", "r">> }

NextSftp ==
    \/ \E attrs \in {NoAttrs, ModeAndTimes} : openFile(ReadWrite, attrs)
    \/ removeFile
    \/ renameFile
    \/ makeDirectory(ModeAndTimes)
    \/ removeDirectory
    \/ \E followLinks \in BOOLEAN : getAttrs(followLinks)
    \/ setAttrs(ModeAndTimes)
    \/ readLink
    \/ makeLink
    \/ realPath
    \/ fileClose
    \/ readChunk(0, 1)
    \/ writeChunk(1, <<"p">>)
    \/ fileGetAttrs
    \/ openDirectory
    \/ dirNext
    \/ dirClose

\* the requests of one SFTP client, each handled to its end
SpecSftp == Init /\ [][NextSftp]_vars

NextOpenFlags ==
    \/ \E flags \in 0..(2 * FXF_EXCL - 1) : openFile(flags, NoAttrs)
    \/ fileClose
    \/ removeFile

\* a client opening the file with every combination of the six open flags
SpecOpenFlags == Init /\ [][NextOpenFlags]_vars

NextChunks ==
    \/ \E flags \in {FXF_READ, ReadWrite, CreateTrunc, ReadWriteAppend} :
          openFile(flags, NoAttrs)
    \/ \E offset \in Offsets : \E length \in Lengths : readChunk(offset, length)
    \/ \E offset \in Offsets : \E data \in Chunks : writeChunk(offset, data)
    \/ fileClose

\* a client reading and writing the file through one handle after another
SpecChunks == Init /\ [][NextChunks]_vars

NextPtyOwnership ==
    \/ \E rq \in PtyRequests : getPty(rq[1], rq[2], rq[3])
    \/ \E resolves \in BOOLEAN : openShell(resolves)
    \/ \E resolves \in BOOLEAN : execCommand(resolves)
    \/ deviceRemoved
    \/ \E u \in {"ghost", "bob"} : runAsUser(u, [form |-> "list", items |-> <<>>])
    \/ runAsUserEntry
    \/ runAsUserCleanup
    \/ Deliver

\* a session getting its pty and its child, in a server whose earlier calls
\* of _runAsUser, for avatars of other connections, went well or failed
SpecPtyOwnership == Init /\ [][NextPtyOwnership]_vars

NextProxy ==
    \/ clientConnectionFailed
    \/ buildProtocol
    \/ connectionMade
    \/ \E code \in Codes : handleStatus(code)
    \/ \E key \in HeaderKeys : handleHeader(key)
    \/ \E buffer \in {"a", "b"} : handleResponsePart(buffer)
    \/ handleResponseEnd

\* one request through the proxy: the connection fails, or the callbacks of
\* the ProxyClient come in any order and number
SpecProxy == Init /\ [][NextProxy]_vars

NextDirectory ==
    \/ openDirectory
    \/ dirNext
    \/ dirClose
    \/ removeFile
    \/ openFile(CreateTrunc, NoAttrs)
    \/ fileClose

\* a client reading the directory, and removing and creating the file in it
SpecDirectory == Init /\ [][NextDirectory]_vars

\* attributes the avatar may not set: the file handed to root
RootOwned == [uid |-> 0, gid |-> 1]

NextHandles ==
    \/ \E flags \in {ReadWrite, CreateTrunc} :
          \E attrs \in {NoAttrs, ModeAndTimes, RootOwned} : openFile(flags, attrs)
    \/ fileClose
    \/ readChunk(0, 1)
    \/ fileGetAttrs
    \/ removeFile
    \/ logout

\* clients opening the file, using and closing their handle, and logging out
SpecHandles == Init /\ [][NextHandles]_vars

NextSetAttrs ==
    \/ \E attrs \in AttrSets : setAttrs(attrs)
    \/ removeFile
    \/ openFile(CreateTrunc, NoAttrs)
    \/ fileClose

\* a client setting the attributes of the file
SpecSetAttrs == Init /\ [][NextSetAttrs]_vars

(***************************************************************************)
(* Properties of _runAsUser, checked under SpecRunAsUser.                  *)
(***************************************************************************)
Ended == ret.kind # "none"

\* the process-wide identity is the one the ended activation found
Restored ==
    /\ cred.euid = ret.pre.euid
    /\ cred.egid = ret.pre.egid
    /\ getgroups(cred) = ret.pre.groups

IsPrefix(s, t) == Len(s) <= Len(t) /\ s = SubSeq(t, 1, Len(s))

Last(s, n) == SubSeq(s, Len(s) - n + 1, Len(s))

\* the finally block of the ended activation ran to its end
CleanedUp ==
    /\ Len(ret.log) >= 5
    /\ Last(ret.log, 5) =
         << Ins("setegid", 0, <<>>), Ins("seteuid", 0, <<>>),
            Ins("setgroups", 0, ret.pre.groups),
            Ins("setegid", ret.pre.egid, <<>>),
            Ins("seteuid", ret.pre.euid, <<>>) >>

\* C1: once _runAsUser returns or raises, whatever the reason, the effective
\* uid, the effective gid and the supplementary groups of the process are
\* the values they had immediately before the call.
C1_IdentityRestoredOnEveryExit == Ended => Restored

\* C2: the operations of a batch run one at a time in list order; when
\* operation k raises, operations k+1..n are never executed, and the cleanup
\* phase still runs and restores the pre-call identity.
C2_AbortRestOnFailure ==
    /\ \A j \in DOMAIN stack :
          LET fr == stack[j]
          IN  /\ IsPrefix(fr.ran, fr.batch)
              /\ Len(fr.outs) <= Len(fr.ran)
              /\ \A k \in DOMAIN fr.outs :
                    IsError(fr.outs[k]) => k = Len(fr.ran) /\ fr.pc = "cleanup"
    /\ (Ended /\ ret.phase # "entry") =>
          /\ IsPrefix(ret.ran, ret.batch)
          /\ Len(ret.outs) = Len(ret.ran)
          /\ \A k \in DOMAIN ret.outs :
                IsError(ret.outs[k]) =>
                    /\ Len(ret.ran) = k
                    /\ CleanedUp
                    /\ Restored

\* C2 witness: the first of several operations raised and the call has ended
C2_Witness ==
    /\ Ended
    /\ Len(ret.batch) >= 2
    /\ Len(ret.ran) < Len(ret.batch)
    /\ IsError(ret.outs[Len(ret.ran)])
    /\ ret.pre.groups # SortSeq(getOtherGroups(ret.user), LAMBDA a, b : a < b)

\* C3: when a system call of the entry phase fails, the call fails, no
\* operation of the batch has been executed, and the cleanup phase has still
\* run, so that the process keeps its pre-call uid, gid and groups.
C3_EntryFailureCleansUp ==
    (Ended /\ ret.phase = "entry") =>
        /\ ret.kind = "raised"
        /\ ret.ran = <<>>
        /\ Restored

\* C4: at every instant at most one _runAsUser activation is in flight: no
\* second one, re-entrant ones included, begins its identity switch before
\* the cleanup phase of the current one has completed.
C4_AtMostOneInFlight == Len(stack) <= 1

\* the system calls of one activation, in the order the claim gives them,
\* around n operations
ExpectedLog(u, pre, n) ==
    << Ins("setegid", 0, <<>>), Ins("seteuid", 0, <<>>),
       Ins("setgroups", 0, getOtherGroups(u)),
       Ins("setegid", getUserGroupId(u).gid, <<>>),
       Ins("seteuid", getUserGroupId(u).uid, <<>>) >>
    \o [i \in 1..n |-> OpIns]
    \o << Ins("setegid", 0, <<>>), Ins("seteuid", 0, <<>>),
          Ins("setgroups", 0, pre.groups),
          Ins("setegid", pre.egid, <<>>),
          Ins("seteuid", pre.euid, <<>>) >>

HasIdentityOf(u) ==
    /\ cred.euid = getUserGroupId(u).uid
    /\ cred.egid = getUserGroupId(u).gid
    /\ Range(getgroups(cred)) = Range(getOtherGroups(u))

\* C5: the identity system calls of one call are issued in the order: both
\* effective ids to 0, the target groups, the target gid, the target uid
\* (last), the operations, then both effective ids to 0, the saved groups,
\* the saved gid, the saved uid; and an operation is executed only while
\* the process has the target's uid, gid and groups.
C5_SyscallOrder ==
    /\ \A j \in DOMAIN stack :
          LET fr == stack[j]
          IN  IsPrefix(fr.log,
                       ExpectedLog(fr.user,
                                   [euid |-> fr.euid, egid |-> fr.egid,
                                    groups |-> fr.groups],
                                   Len(fr.ran)))
    /\ (Ended /\ ret.phase \in {"op", "return"}) =>
          ret.log = ExpectedLog(ret.user, ret.pre, Len(ret.ran))
    /\ (stack # <<>> /\ Top.pc = "loop") => HasIdentityOf(Top.user)

\* C5 witness: a call that ran two operations has returned
C5_Witness == Ended /\ ret.kind = "returned" /\ Len(ret.ran) = 2

\* C6: when every operation of a batch succeeds the call returns the result
\* of the last one, for every batch of the single-callable and the list form;
\* when an operation raises, that error reaches the caller, and only after
\* the cleanup phase has completed.
C6_LastResultOrError ==
    (Ended /\ ret.phase # "entry") =>
        /\ (\A k \in DOMAIN ret.outs : ~IsError(ret.outs[k])) =>
              /\ ret.kind = "returned"
              /\ Len(ret.outs) = Len(ret.batch)
              /\ ret.val = ret.outs[Len(ret.batch)]
        /\ (\E k \in DOMAIN ret.outs : IsError(ret.outs[k])) =>
              /\ ret.kind = "raised"
              /\ ret.val = ret.outs[Len(ret.outs)]
              /\ CleanedUp
        /\ CleanedUp

(***************************************************************************)
(* Properties of the session, checked under SpecSession.                   *)
(***************************************************************************)
\* the state of the session: Running while it holds a child that closed()
\* has not let go of; Closed once closed() has been called and no such
\* child is held; PtyRequested while it holds only a pty
SessState ==
    IF sess.pty # NoProc /\ ~child.lost THEN "Running"
    ELSE IF nClosed > 0 THEN "Closed"
    ELSE IF sess.ptyTuple # NoPtyTuple THEN "PtyRequested"
    ELSE "Created"

SameState == {<<q, q>> : q \in {"Created", "PtyRequested", "Running", "Closed"}}

ForwardMoves ==
    { <<"Created", "PtyRequested">>, <<"Created", "Running">>,
      <<"PtyRequested", "Running">>, <<"Running", "Closed">> }

\* C7: the session state only moves along Created -> PtyRequested
\* (optional) -> Running -> Closed; no move skips Running, and Running is
\* entered only from Created or PtyRequested.
C7_NoMoveSkipsRunning ==
    [][(<<SessState, SessState'>> \in SameState \cup ForwardMoves)]_vars

\* C8: openShell on a session without a pty fails with the no-pty error and
\* leaves everything as it was: no child spawned, no device chowned, no
\* login record written, the environment and the write hook untouched.
C8_OpenShellWithoutPty ==
    [][(sess.ptyTuple = NoPtyTuple /\ \E r \in BOOLEAN : openShell(r)) =>
          /\ last' = [op |-> "openShell", err |-> "ConchError"]
          /\ UNCHANGED <<cred, sess, devs, nSpawned, child, utmpLog>>]_vars

\* C8 witness: openShell has just failed on a session without a pty
C8_Witness ==
    /\ last = [op |-> "openShell", err |-> "ConchError"]
    /\ sess.ptyTuple = NoPtyTuple
    /\ sess.environ = InitEnviron
    /\ ~sess.hooked

\* C9: closed() is idempotent: a second call sends no further hang-up
\* signal, writes no further login record, changes no ownership, and does
\* not raise.
C9_SecondCloseDoesNothing ==
    [][(nClosed >= 1 /\ closed) =>
          /\ child'.hups = child.hups
          /\ utmpLog' = utmpLog
          /\ devs' = devs
          /\ last' = NoError]_vars

\* C10: closed() never raises, from any state the session can be in.
C10_ClosedNeverRaises == last.op # "closed"

(***************************************************************************)
(* Properties of the terminal of a session, checked under SpecTerminal.    *)
(***************************************************************************)
\* C11: on a running session that holds a pty, windowChanged(newSize) sets
\* the stored window size to newSize and leaves everything else as it was:
\* the state of the session, the pty (master, slave, device), the child
\* process, the environment and the list of modes.
C11_WindowChangedStoresSize ==
    [][\A ws \in WinSizes :
          (SessState = "Running" /\ sess.ptyTuple # NoPtyTuple /\ windowChanged(ws)) =>
              /\ sess' = [sess EXCEPT !.winSize = ws]
              /\ SessState' = "Running"
              /\ [child' EXCEPT !.ws = child.ws] = child
              /\ child'.ws \in {child.ws, ws}
              /\ UNCHANGED <<cred, devs, nSpawned, utmpLog>>]_vars

\* C11 witness: a shell opened on an xterm of 24 rows now runs with the 30
\* rows a later windowChanged gave it
C11_Witness ==
    /\ SessState = "Running"
    /\ sess.hooked
    /\ sess.environ.TERM = "xterm"
    /\ sess.winSize = <<30, 100, 0, 0>>
    /\ child.ws = <<30, 100, 0, 0>>

(***************************************************************************)
(* Further properties of the session, checked under SpecSession.           *)
(***************************************************************************)
\* C12: getPty takes effect only in Created: called in PtyRequested, Running
\* or Closed it allocates no pseudo-terminal and replaces neither the pty of
\* the session nor its terminal type, window size or modes, so that a
\* session allocates at most one pty.
C12_GetPtyOnlyInCreated ==
    [][\A rq \in PtyRequests :
          (SessState # "Created" /\ getPty(rq[1], rq[2], rq[3])) =>
              UNCHANGED <<sess, devs>>]_vars

\* C13: eofReceived closes the input of the child only when the session is
\* Running; in Created, PtyRequested and Closed it closes nothing; and it
\* never changes the state of the session.
C13_EofOnlyWhenRunning ==
    [][eofReceived =>
          /\ (child'.stdinClosed # child.stdinClosed) => SessState = "Running"
          /\ SessState' = SessState
          /\ UNCHANGED <<cred, sess, devs, nSpawned, utmpLog>>]_vars

\* C13 witness: the input of a child that runs, and that closed() has not
\* let go of, is closed
C13_Witness ==
    /\ SessState = "Running"
    /\ child.alive
    /\ child.stdinClosed

\* C14: closed() writes the logout record when the session had a pty and
\* none when it had not; login accounting is done only where a pty session
\* starts and ends, so that every logout record follows a login record
\* written for the same terminal of the session.
C14_LogoutFollowsLogin ==
    \A i \in DOMAIN utmpLog :
        utmpLog[i].type = "DEAD_PROCESS" =>
            \E j \in 1..(i - 1) :
                utmpLog[j] = [type |-> "USER_PROCESS", line |-> utmpLog[i].line]

\* C15: after closed() on a session whose pty device is still on disk the
\* device belongs to uid 0, its group unchanged, whatever came before the
\* close; no device stays owned by the user once its session is Closed.
C15_DeviceBackToRoot ==
    SessState = "Closed" =>
        \A n \in DOMAIN devs :
            devs[n].exists => devs[n].uid = 0 /\ devs[n].gid = TtyGid

(***************************************************************************)
(* Properties of the write hook, checked under SpecWriteHack.              *)
(***************************************************************************)
\* what the writes ws must have put on the wire: each payload once, in
\* order, and before it an ignore message of 8 + len(payload) bytes exactly
\* when the write met a terminal with ECHO off and ICANON on
RECURSIVE ExpectedWire(_)
ExpectedWire(ws) ==
    IF ws = <<>> THEN <<>>
    ELSE LET w == ws[Len(ws)]
             before == IF ~w.echo /\ w.icanon
                       THEN << [kind |-> "ignore", size |-> 8 + Len(w.data),
                                data |-> <<>>] >>
                       ELSE <<>>
         IN  ExpectedWire(SubSeq(ws, 1, Len(ws) - 1)) \o before
             \o << [kind |-> "data", size |-> Len(w.data), data |-> w.data] >>

\* C16: every write through the hook forwards its payload to the original
\* write exactly once, and an ignore message of 8 + len(payload) bytes goes
\* out immediately before it if and only if, at the moment of that write,
\* the terminal has ECHO off and ICANON on; the flags are read on every
\* write.
C16_IgnoreBeforePayload == wire = ExpectedWire(writes)

\* C16 witness: two writes, the first to a terminal that does not echo and
\* reads lines, the second after the program has switched the echo on
C16_Witness ==
    /\ Len(writes) = 2
    /\ ~writes[1].echo /\ writes[1].icanon
    /\ writes[2].echo
    /\ Len(wire) = 3
    /\ wire[1].kind = "ignore"

(***************************************************************************)
(* Properties of the SFTP server, checked under SpecSftp, SpecOpenFlags,   *)
(* SpecChunks and SpecSetAttrs.                                            *)
(***************************************************************************)
\* the system calls that work on the files of the client
FsCalls ==
    {"open", "close", "lseek", "read", "write", "fstat", "stat", "lstat",
     "remove", "rename", "mkdir", "rmdir", "readlink", "symlink", "listdir",
     "chown", "chmod", "utime"}

\* C17: every system call on the files made for a request of the SFTP server,
\* of a file handle or of a directory stream, realPath alone excepted, is made
\* while the effective uid, gid and groups of the process are those of the
\* avatar; between two requests the process has the identity it started with.
C17_SyscallsAsAvatar ==
    /\ \A i \in DOMAIN sysLog :
          /\ sysLog[i].call \in FsCalls \cup {"realpath"}
          /\ sysLog[i].call \in FsCalls =>
                /\ sysLog[i].euid = Passwd[SessUser].uid
                /\ sysLog[i].egid = Passwd[SessUser].gid
                /\ Range(sysLog[i].groups) = Range(getOtherGroups(SessUser))
    /\ cred = RootCred(<<0>>)

\* a chunk was read through a handle: a seek and a read, both as the avatar
C17_Witness ==
    /\ reply.req = "readChunk"
    /\ reply.err = None
    /\ Len(sysLog) = 2
    /\ sysLog[1].call = "lseek" /\ sysLog[2].call = "read"
    /\ sysLog[2].euid = Passwd[SessUser].uid
    /\ cred.euid = 0

\* whether o is what the protocol flags ask of os.open
Decoded(flags, o) ==
    /\ Has(flags, FXF_READ) /\ ~Has(flags, FXF_WRITE) => AccMode(o) = O_RDONLY
    /\ Has(flags, FXF_WRITE) /\ ~Has(flags, FXF_READ) => AccMode(o) = O_WRONLY
    /\ Has(flags, FXF_WRITE) /\ Has(flags, FXF_READ) => AccMode(o) = O_RDWR
    /\ Has(o, O_APPEND) <=> Has(flags, FXF_APPEND)
    /\ Has(o, O_CREAT) <=> Has(flags, FXF_CREAT)
    /\ Has(o, O_TRUNC) <=> Has(flags, FXF_TRUNC)
    /\ Has(o, O_EXCL) <=> Has(flags, FXF_EXCL)
    /\ o = AccMode(o) + (IF Has(o, O_APPEND) THEN O_APPEND ELSE 0)
                      + (IF Has(o, O_CREAT) THEN O_CREAT ELSE 0)
                      + (IF Has(o, O_TRUNC) THEN O_TRUNC ELSE 0)
                      + (IF Has(o, O_EXCL) THEN O_EXCL ELSE 0)

\* C18: for every combination of the six protocol flags, the flags handed to
\* os.open are read-only for READ without WRITE, write-only for WRITE without
\* READ, read-write for both, and carry O_APPEND, O_CREAT, O_TRUNC and O_EXCL
\* exactly when FXF_APPEND, FXF_CREAT, FXF_TRUNC and FXF_EXCL are set.
C18_OpenFlagsDecoded ==
    reply.req = "openFile" =>
        /\ sysLog # <<>>
        /\ sysLog[1].call = "open"
        /\ Decoded(reply.arg[1], sysLog[1].a[1])
        /\ reply.arg[1] = FXF_READ => sysLog[1].a[1] = O_RDONLY
        /\ reply.arg[1] = CreateTrunc => sysLog[1].a[1] = O_WRONLY + O_CREAT + O_TRUNC
        /\ reply.arg[1] = ReadWriteAppend => sysLog[1].a[1] = O_RDWR + O_APPEND

\* the file was opened for reading and writing, to append
C18_Witness ==
    /\ reply.req = "openFile"
    /\ reply.err = None
    /\ reply.arg[1] = ReadWriteAppend
    /\ handle.open
    /\ handle.openFlags = O_RDWR + O_APPEND

\* the bytes of data at positions [offset, offset + length), as far as it goes
BytesAt(data, offset, length) ==
    SubSeq(data, offset + 1, Min(offset + length, Len(data)))

\* whether after holds d from position offset on, and before everywhere else
StoredAt(before, after, offset, d) ==
    /\ Len(after) = (IF offset + Len(d) > Len(before) THEN offset + Len(d)
                                                       ELSE Len(before))
    /\ \A i \in 1..Len(d) : after[offset + i] = d[i]
    /\ \A i \in 1..Len(before) :
          (i <= offset \/ i > offset + Len(d)) => after[i] = before[i]

\* readChunk(offset, length) gives the bytes stored at the offset
ReadIsPositional ==
    reply'.req = "readChunk" /\ reply'.err = None =>
        reply'.val = BytesAt(file.data, reply'.arg[1], reply'.arg[2])

\* a chunk written and then read at the same offset comes back
ReadsBackWrite ==
    /\ reply.req = "writeChunk" /\ reply.err = None
    /\ reply'.req = "readChunk" /\ reply'.err = None
    /\ reply'.arg = <<reply.arg[1], Len(reply.arg[2])>>
    => reply'.val = reply.arg[2]

\* C19 as the specification states it: whatever was read or written through
\* the handle before, readChunk gives the bytes at its offset and writeChunk
\* stores its data from its offset on, so that a chunk written and read back
\* at the same offset through a read-write handle is the chunk written.
C19_ChunksArePositional ==
    [][/\ ReadIsPositional
       /\ reply'.req = "writeChunk" /\ reply'.err = None =>
             StoredAt(file.data, file'.data, reply'.arg[1], reply'.arg[2])
       /\ ReadsBackWrite]_vars

\* C19, amended: readChunk gives the bytes at its offset whatever came
\* before; writeChunk stores its data from its offset on through a handle
\* opened without FXF_APPEND, and at the end of the file, whatever the offset,
\* through a handle opened with FXF_APPEND; a chunk written and read back at
\* the same offset is the chunk written on a handle opened without FXF_APPEND.
C19_PositionalUnlessAppend ==
    [][/\ ReadIsPositional
       /\ reply'.req = "writeChunk" /\ reply'.err = None =>
             IF Has(handle.openFlags, O_APPEND)
             THEN file'.data = file.data \o reply'.arg[2]
             ELSE StoredAt(file.data, file'.data, reply'.arg[1], reply'.arg[2])
       /\ ~Has(handle.openFlags, O_APPEND) => ReadsBackWrite]_vars

\* a chunk written at offset 0 through a handle opened to append is at the end
\* of the file, and the bytes at offset 0 are the old ones
C19_Witness ==
    /\ reply.req = "writeChunk"
    /\ reply.err = None
    /\ reply.arg = <<0, <<"p">> >>
    /\ Has(handle.openFlags, O_APPEND)
    /\ file.data = <<"x", "y", "p">>

\* the names of the system calls of a log, in order
CallsOf(log) == [i \in DOMAIN log |-> log[i].call]

\* the calls _setAttrs is to make for the keys of attrs
CallsFor(attrs) ==
    (IF {"uid", "gid"} \subseteq DOMAIN attrs THEN <<"chown">> ELSE <<>>)
    \o (IF "permissions" \in DOMAIN attrs THEN <<"chmod">> ELSE <<>>)
    \o (IF {"atime", "mtime"} \subseteq DOMAIN attrs THEN <<"utime">> ELSE <<>>)

\* C20: for every subset of the keys uid, gid, permissions, atime and mtime,
\* setAttrs changes the owner exactly when uid and gid are both present, the
\* mode exactly when permissions is present, the times exactly when atime and
\* mtime are both present, each whatever the other keys are, and changes
\* nothing else of the path; the calls it makes are those, in this order, up
\* to the first the kernel refuses.
C20_SetAttrsByKey ==
    [][reply'.req = "setAttrs" =>
        LET attrs == reply'.arg[1]
            keys == DOMAIN attrs
        IN  /\ IsPrefix(CallsOf(sysLog'), CallsFor(attrs))
            /\ file'.data = file.data
            /\ file'.exists = file.exists
            /\ reply'.err = None =>
                  /\ CallsOf(sysLog') = CallsFor(attrs)
                  /\ <<file'.uid, file'.gid>> =
                        (IF {"uid", "gid"} \subseteq keys
                         THEN <<attrs.uid, attrs.gid>> ELSE <<file.uid, file.gid>>)
                  /\ file'.mode = (IF "permissions" \in keys THEN attrs.permissions
                                                            ELSE file.mode)
                  /\ <<file'.atime, file'.mtime>> =
                        (IF {"atime", "mtime"} \subseteq keys
                         THEN <<attrs.atime, attrs.mtime>>
                         ELSE <<file.atime, file.mtime>>)]_vars

\* attributes were set with a uid and no gid, and with an mtime and no atime:
\* the mode is the new one, the owner and the times are the old ones
C20_Witness ==
    /\ reply.req = "setAttrs"
    /\ reply.err = None
    /\ DOMAIN reply.arg[1] = {"uid", "permissions", "mtime"}
    /\ reply.arg[1].uid = 0
    /\ file.uid = Passwd[SessUser].uid
    /\ file.mode = reply.arg[1].permissions
    /\ file.mtime = 0
    /\ CallsOf(sysLog) = <<"chmod">>

\* C21: a directory stream opened over n entries gives exactly n triples, one
\* for each entry in the order of the listing; next() on a stream with no
\* entry left, exhausted or closed, signals the end of the sequence, without
\* an error and without starting again; close() does not raise and discards
\* the entries not read.
C21_EveryEntryOnce ==
    [][/\ reply'.req = "next" =>
             IF dir.files = <<>>
             THEN reply'.err = "StopIteration" /\ dir' = dir
             ELSE /\ reply'.err = None
                  /\ reply'.val[1] = Head(dir.files)
                  /\ dir'.files = Tail(dir.files)
       /\ reply'.req = "dirClose" => reply'.err = None /\ dir'.files = <<>>
       /\ dir'.open /\ ~dir'.closed => dir'.given \o dir'.files = dir'.listed]_vars

\* C22: every descriptor an open obtained is released: a descriptor is open
\* only from the open that made its handle to the close of that handle, none
\* stays open when the session of its owner has ended, and none stays open
\* when the attributes could not be set after the file was opened.
C22_NoDescriptorWithoutHandle ==
    /\ handle.open => handle.held
    /\ reply.req = "logout" => ~handle.open
    /\ reply.req = "openFile" /\ reply.err # None => ~handle.open

(***************************************************************************)
(* Nested calls of _runAsUser, checked under SpecRunAsUser.                *)
(***************************************************************************)
\* the identity an activation saved is the one its caller's avatar runs under
SavedIsCallers(inner, outer) ==
    /\ inner.euid = getUserGroupId(outer.user).uid
    /\ inner.egid = getUserGroupId(outer.user).gid
    /\ Range(inner.groups) = Range(getOtherGroups(outer.user))

\* C23: a call of _runAsUser made from inside an operation of another call,
\* for the same avatar or another, leaves on its return the identity of the
\* outer call's avatar, and the outer call leaves on its return the identity
\* the process had before it: at every depth of nesting the identities are
\* restored last in, first out, also when an operation of the inner call
\* raises.
C23_NestedRestoresLifo ==
    /\ \A j \in DOMAIN stack :
          j > 1 => /\ stack[j - 1].pc = "wait"
                   /\ SavedIsCallers(stack[j], stack[j - 1])
    /\ (Ended /\ ret.phase # "entry") => Restored
    /\ (Ended /\ ret.phase # "entry" /\ ret.depth > 1) =>
          /\ stack # <<>>
          /\ Top.pc = "wait"
          /\ HasIdentityOf(Top.user)
    /\ (Ended /\ ret.phase # "entry" /\ ret.depth = 1) => stack = <<>>

\* an operation of an inner call for another avatar raised, the inner call
\* has ended, and the process has the identity of the outer call's avatar
C23_Witness ==
    /\ Ended
    /\ ret.depth = 2
    /\ ret.kind = "raised"
    /\ ret.phase = "op"
    /\ stack # <<>>
    /\ ret.user # Top.user
    /\ cred.euid = getUserGroupId(Top.user).uid
    /\ cred.euid # 0

(***************************************************************************)
(* getPtyOwnership, checked under SpecPtyOwnership.                        *)
(***************************************************************************)
\* C24: getPtyOwnership leaves the effective uid and gid of the process as
\* they were before the call, whether the chown of the device succeeds or
\* raises; the chown is made with effective uid 0, gives the device to the
\* avatar's uid and keeps the gid the device had; and it comes before the
\* child is spawned, in openShell and in execCommand with a pty.
C24_PtyOwnership ==
    [][(/\ sess.ptyTuple # NoPtyTuple
        /\ \/ \E r \in BOOLEAN : openShell(r)
           \/ \E r \in BOOLEAN : execCommand(r)) =>
          LET n == TtyOf(sess.ptyTuple)
              spawned == nSpawned' # nSpawned
          IN  /\ cred'.euid = cred.euid
              /\ cred'.egid = cred.egid
              /\ getgroups(cred') = getgroups(cred)
              /\ \A raced \in BOOLEAN :
                    devs[n].exists =>
                       getPtyOwnership(cred, devs, sess.ptyTuple, SessUser,
                                       raced).at.euid = 0
              /\ devs'[n].exists =>
                    /\ devs'[n].uid = getUserGroupId(SessUser).uid
                    /\ devs'[n].gid = devs[n].gid
              /\ ~devs'[n].exists => ~spawned /\ last'.err = "OSError"
              /\ spawned => /\ devs'[n].exists
                            /\ devs'[n].uid = getUserGroupId(SessUser).uid]_vars

\* the shell was started on a pty by a process whose effective gid was not 0:
\* the device is the avatar's, with the group of the terminals, and the
\* effective ids are the ones from before
C24_Witness ==
    /\ sess.pty # NoProc
    /\ child.alive
    /\ sess.ptyTuple # NoPtyTuple
    /\ devs[TtyOf(sess.ptyTuple)].uid = getUserGroupId(SessUser).uid
    /\ devs[TtyOf(sess.ptyTuple)].gid = TtyGid
    /\ cred.euid = 0
    /\ cred.egid # 0

(***************************************************************************)
(* The proxy, checked under SpecProxy.                                     *)
(***************************************************************************)
\* the father was finished as often as it should have been by now
FinishedOnce(p) ==
    /\ p.father.finishes <= 1
    /\ p.client =>
          /\ p.father.finishes = (IF p.ends >= 1 THEN 1 ELSE 0)
          /\ p.lost = p.father.finishes
    /\ p.conn = "failed" =>
          /\ p.father.finishes = 1
          /\ p.father.code = 501
          /\ ~p.client
          /\ p.lost = 0

\* C25: the father of a proxied request is finished at most once: whatever
\* handleResponsePart and handleResponseEnd callbacks come, father.finish()
\* and transport.loseConnection() are each called once, on the first
\* handleResponseEnd, and a later handleResponseEnd does nothing; a
\* connection that fails finishes the father once, with a 501 response, and
\* without a ProxyClient.
C25_FatherFinishedOnce ==
    [][/\ FinishedOnce(proxy')
       /\ (proxy.ends = 0 /\ proxy'.ends = 1) =>
             /\ proxy'.father.finishes = 1
             /\ proxy'.lost = 1
       /\ (proxy.ends >= 1 /\ proxy'.ends > proxy.ends) =>
             /\ proxy'.father = proxy.father
             /\ proxy'.lost = proxy.lost
       /\ proxy'.conn = "failed" /\ proxy.conn # "failed" =>
             /\ proxy'.father.finishes = proxy.father.finishes + 1
             /\ ~proxy'.client]_vars

\* the response ended twice, after a part was forwarded: one finish, one
\* loseConnection
C25_Witness ==
    /\ proxy.client
    /\ proxy.ends = 2
    /\ proxy.father.body # <<>>
    /\ proxy.father.finishes = 1
    /\ proxy.lost = 1

====
